---- MODULE Spec2Model ----
(***************************************************************************)
(* Model of `call` (src/src/client.ts), the request-execution pipeline of  *)
(* the fetch client: the attempt loop with its inter-attempt wait, the     *)
(* timeout timer, the composed abort signal, the status classification,   *)
(* the body decoding and the way the call settles.                         *)
(*                                                                         *)
(* One behaviour is one call.  The state starts when `call` is invoked;     *)
(* every action is one run-to-completion segment of the async function     *)
(* (from one await to the next) or one event of the environment (a timer   *)
(* firing, a signal aborting, the transport answering or throwing).        *)
(* A second call made with the same options (`peer`) runs next to it in    *)
(* SpecPair, seen through the state the attempt loop keeps.                *)
(*                                                                         *)
(* Environment conventions:                                                *)
(*  - a timer id is the attempt index that armed it, plus one, so that it  *)
(*    is truthy like the value setTimeout returns;                         *)
(*  - a response is identified by the attempt that received it, plus one;  *)
(*    0 stands for `undefined`;                                            *)
(*  - fetch follows the Fetch standard: with its signal aborted it rejects *)
(*    and never delivers a response; an abort after the response has been  *)
(*    delivered can only make the pending body read throw;                 *)
(*  - response bodies are well formed for their content type, so a body    *)
(*    read throws only when the request's signal has been aborted;         *)
(*  - an optional option is a set: {} when it is undefined, {v} when it    *)
(*    holds v; an entry of a map-shaped option is "absent" (no such key),  *)
(*    "undefined" (key present, value undefined) or its string value;      *)
(*  - an interceptor option is "undefined", "void" (a function that        *)
(*    returns nothing) or "replace" (a function that returns a new         *)
(*    object); interceptors do not throw, and a request an interceptor     *)
(*    returns is made from the request it was given and keeps its signal   *)
(*    and its body;                                                        *)
(*  - a number of milliseconds is [big, n]: n itself when big = 0,          *)
(*    2^31 + n when big = 1, Infinity when big = 2, so that durations above *)
(*    the 32-bit ceiling of the timers are values of the model;             *)
(*  - only the path of a URL is modelled, as the sequence of its segments:  *)
(*    << "" >> is "/", << "hello" >> is "/hello", << "hello", "" >> is      *)
(*    "/hello/"; a reference is its segments and whether it starts with     *)
(*    "/";                                                                  *)
(*  - a content type is << essence, parameters >>, or << >> when the        *)
(*    header is absent;                                                     *)
(*  - fetch rejects with a TypeError when the body of the Request it is     *)
(*    given has already been handed to the transport.                       *)
(***************************************************************************)
EXTENDS Integers, Sequences, FiniteSets, TLC

\* ---------------------------------------------------------------- bounds

\* largest retry count a call is configured with
MaxRetry == 2

\* ------------------------------------------------------- program constants

\* `undefined` status (FetchError.status when no status is passed)
NoStatus == -1

\* `undefined` / falsy handle, and the id of an absent response
Undefined == 0

\* the Request instance built from the merged options
TheRequest == 1

\* the Request a replacing client.interceptRequest returns
ClientRequest == 2

\* the Request a replacing call.interceptRequest returns
CallRequest == 3

\* the Response a replacing client.interceptResponse returns
ClientResponse == [id |-> 101, status |-> 201]

\* the Response a replacing call.interceptResponse returns
CallResponse == [id |-> 102, status |-> 202]

\* status codes the transport answers with
Statuses == {200, 404, 429, 500}

\* defaults of retryStatus and status
DefaultRetryStatus == {408, 425, 429, 5}
DefaultMatchStatus == {0, 2}

\* the status and retryStatus options a call is made with, at client and
\* at call level: all undefined (the defaults apply), client-level sets
\* where the retry set overlaps the success set, and call-level sets of
\* exact codes that override client-level ones
StatusOptions ==
    { [ client |-> [status |-> {}, retryStatus |-> {}],
        call   |-> [status |-> {}, retryStatus |-> {}] ],
      [ client |-> [status |-> {{2}}, retryStatus |-> {{2, 5}}],
        call   |-> [status |-> {}, retryStatus |-> {}] ],
      [ client |-> [status |-> {{2}}, retryStatus |-> {{5}}],
        call   |-> [status |-> {{200, 404}}, retryStatus |-> {{404, 500}}] ] }

SignalStates == {"none", "idle", "aborted"}

\* values of an interceptor option
Interceptors == {"undefined", "void", "replace"}

\* keys of the headers and query maps
HeaderKeys == {"content-type", "x-key"}
QueryKeys == {"q"}

\* a finite number of milliseconds, and the two kinds of larger ones
Ms(n) == [big |-> 0, n |-> n]
Above(n) == [big |-> 1, n |-> n]
Infinity == [big |-> 2, n |-> 0]

\* 2 ** 31 - 1
MaxTimerDelay == Ms(2147483647)

\* defaults of retry and retryDelay
DefaultRetry == 0
DefaultRetryDelay == << 100, 200, 400, 800, 1600 >>

\* base URLs: http://api.example.com, .../hello and .../hello/
Root == << "" >>
Bases == { Root, << "hello" >>, << "hello", "" >> }

\* the path '' and the paths of a call: '', '.', './', 'world', './world',
\* '/', '/.', '/./', '/world'
EmptyPath == [abs |-> FALSE, segs |-> << >>]
Paths ==
    { EmptyPath,
      [abs |-> FALSE, segs |-> << "." >>],
      [abs |-> FALSE, segs |-> << ".", "" >>],
      [abs |-> FALSE, segs |-> << "world" >>],
      [abs |-> FALSE, segs |-> << ".", "world" >>],
      [abs |-> TRUE, segs |-> << "" >>],
      [abs |-> TRUE, segs |-> << "." >>],
      [abs |-> TRUE, segs |-> << ".", "" >>],
      [abs |-> TRUE, segs |-> << "world" >>] }

\* content types a response comes with
ContentTypes ==
    { << >>,
      << "text/plain", ";charset=utf-8" >>,
      << "application/json", "" >>,
      << "multipart/form-data", "; boundary=x" >>,
      << "application/x-www-form-urlencoded", "" >>,
      << "image/jpeg", "" >> }

\* options with every field undefined and empty maps
NoOptions ==
    [ url |-> {},
      parse |-> {},
      timeout |-> {},
      timeoutReset |-> {},
      retry |-> {},
      retryDelay |-> {},
      status |-> {},
      retryStatus |-> {},
      interceptRequest |-> "undefined",
      interceptResponse |-> "undefined",
      headers |-> [k \in HeaderKeys |-> "absent"],
      query |-> [k \in QueryKeys |-> "absent"] ]

\* client options that hold the base URL http://api.example.com only
BaseOptions == [NoOptions EXCEPT !.url = {Root}]

\* what the steps that build the URL and the Request do: complete ("ok"),
\* or throw in new URL(..) ("url") or in new Request(..) ("init")
Constructions == {"ok", "url", "init"}

\* the state of a call seen through its attempt loop, before it starts
PeerIdle ==
    [ pc |-> "start", attempt |-> 0, handle |-> Undefined, timers |-> {},
      abortController |-> FALSE, fired |-> FALSE ]

VARIABLES
    retry,            \* const retry
    timeoutReset,     \* const timeoutReset
    parse,            \* const parse
    retryStatus,      \* const retryStatus
    matchStatus,      \* const matchStatus
    clientSignal,     \* client.signal: "none" (absent), "idle" or "aborted"
    callSignal,       \* call.signal
    abortController,  \* abortController.signal.aborted
    pc,               \* where the async function is suspended
    attempt,          \* loop variable
    handle,           \* let handle
    timers,           \* ids of the timeout timers that are armed
    response,         \* let response: [id, status]
    requestSuccess,   \* let requestSuccess
    requestRetry,     \* let requestRetry
    result,           \* how the promise settled
    inFlight,         \* transport calls issued and not yet completed
    fetchCount,       \* history: transport calls issued
    waitCount,        \* history: waits started
    armCount,         \* history: timeout timers armed
    clearCount,       \* history: armed timeout timers cleared
    statuses,         \* history: statuses of the responses received
    fired,            \* history: the timeout timer that fired, and when
    abortedIn,        \* history: pc when the composed signal first fired
    thrown,           \* history: the value the transport threw
    lateResponse,     \* history: a response was delivered after a source fired
    clientOptions,    \* the client options object (parameter client)
    callOptions,      \* the call options object (parameter call)
    construction,     \* what building the URL and the Request does
    method,           \* parameter method, upper case
    body,             \* parameter body: "undefined", "object" or "text"
    request,          \* let request
    headers,          \* the headers of the request that was built
    query,            \* the search parameters of the URL that was built
    intercepted,      \* history: the interceptor calls, in order
    sent,             \* history: the request passed to each transport call
    path,             \* parameter path
    contentType,      \* the content-type header of the responses
    url,              \* const url: its path
    requestBody,      \* const requestBody
    timeout,          \* const timeout
    retryDelay,       \* const retryDelay
    delays,           \* history: the delay of each wait started
    armed,            \* history: the delay of each timeout timer armed
    waitEnds,         \* history: how each wait ended
    consumed,         \* history: the body reads started: response and reader
    bodySource,       \* the response that const responseBody was taken from
    peer              \* a second call made with the same options

\* the variables of the call, without the second call
callVars ==
    << retry, timeoutReset, parse, retryStatus, matchStatus, clientSignal,
       callSignal, abortController, pc, attempt, handle, timers, response,
       requestSuccess, requestRetry, result, inFlight, fetchCount, waitCount,
       armCount, clearCount, statuses, fired, abortedIn, thrown, lateResponse,
       clientOptions, callOptions, construction, method, body, request,
       headers, query, intercepted, sent, path, contentType, url, requestBody, timeout,
       retryDelay, delays, armed, waitEnds, consumed, bodySource >>

vars == << callVars, peer >>

\* the arguments of the call other than the client options and the signals,
\* and what the transport is going to answer with
inputs == << callOptions, construction, method, body, path, contentType >>

\* what the synchronous prefix of the call computes, and the client options
built ==
    << clientOptions, retry, timeoutReset, parse, timeout, retryDelay,
       retryStatus, matchStatus, url, requestBody, request, headers, query >>

\* ------------------------------------------------------------ pure helpers

NoResponse == [id |-> Undefined, status |-> NoStatus]

NoResult ==
    [ kind |-> "pending", request |-> Undefined, response |-> Undefined,
      error |-> "undefined", status |-> NoStatus, body |-> "undefined" ]

NoFire == [id |-> Undefined, attempt |-> -1, pc |-> "none"]

\* const block = ~~(status / 100)
Block(status) == status \div 100

\* mutant: rules.includes(status): the hundreds digit is not looked up
IncludesExact(rules, status) == status \in rules

\* rules.includes(status) || rules.includes(block)
Includes(rules, status) == status \in rules \/ Block(status) \in rules

\* mutant: AbortSignal.any([abortController.signal, client.signal]): call.signal left out
SignalWithoutCallSignal == abortController \/ clientSignal = "aborted"

\* AbortSignal.any([abortController.signal, client.signal, call.signal])
SignalAborted ==
    \/ abortController
    \/ clientSignal = "aborted"
    \/ callSignal = "aborted"

\* one of the three abort sources has fired
AnySourceFired ==
    \/ abortController
    \/ clientSignal = "aborted"
    \/ callSignal = "aborted"

Settled == pc \in {"resolved", "rejected"}

\* the value of an optional that is defined
The(opt) == CHOOSE v \in opt : TRUE

\* mutant: client?.option ?? call?.option ?? default
CoalesceClientFirst(callOpt, clientOpt, default) ==
    IF clientOpt # {} THEN The(clientOpt)
    ELSE IF callOpt # {} THEN The(callOpt)
    ELSE default

\* call?.option ?? client?.option ?? default
Coalesce(callOpt, clientOpt, default) ==
    IF callOpt # {} THEN The(callOpt)
    ELSE IF clientOpt # {} THEN The(clientOpt)
    ELSE default

\* { ...a, ...b }: every own key of b, whatever its value, replaces a's
Spread(a, b) == [k \in DOMAIN a |-> IF b[k] # "absent" THEN b[k] ELSE a[k]]

\* Object.entries(query).filter(([, value]) => value != undefined)
\* .forEach(([key, value]) => url.searchParams.append(key, `${value}`)):
\* the search parameters of the URL (the values are strings)
SearchParams(q) ==
    [k \in DOMAIN q |-> IF q[k] = "undefined" THEN "absent" ELSE q[k]]

\* new Request(.., { headers }): a record is converted entry by entry, an
\* undefined value to the string 'undefined'
HeadersInit(h) ==
    [k \in DOMAIN h |-> IF h[k] = "undefined" THEN "'undefined'" ELSE h[k]]

\* if (method === 'HEAD' || method === 'GET') body = undefined
SentBody(m, b) == IF m \in {"HEAD", "GET"} THEN "undefined" ELSE b

\* const isJson = !!body && [Object.prototype, Array.prototype, null].includes(..)
IsJson(m, b) == SentBody(m, b) = "object"

\* const headers = { ...client?.headers, ...call?.headers }
\* if (isJson) headers['content-type'] = 'application/json'
MergedHeaders(client, call, m, b) ==
    IF IsJson(m, b)
    THEN [Spread(client.headers, call.headers) EXCEPT !["content-type"] = "application/json"]
    ELSE Spread(client.headers, call.headers)

\* const requestBody = isJson ? JSON.stringify(body) : body
RequestBody(m, b) == IF IsJson(m, b) THEN "JSON.stringify(object)" ELSE SentBody(m, b)

\* the Request passed to fetch carries a body that an earlier transport
\* call of this call has taken
BodyUsed == fetchCount > 1 /\ SentBody(method, body) # "undefined"

\* what fetch(request) throws: a TypeError for a body already used, the
\* abort reason once request.signal has fired, a network error otherwise
TransportError ==
    IF BodyUsed THEN "TypeError"
    ELSE IF SignalAborted THEN "AbortError"
    ELSE "NetworkError"

\* the path of a URL after its segments were parsed: a "." segment is
\* dropped, a ".." segment drops the segment before it, and either leaves
\* an empty segment when it comes last
RECURSIVE RemoveDots(_, _)
RemoveDots(segs, out) ==
    IF segs = << >> THEN out
    ELSE IF Head(segs) = ".."
         THEN RemoveDots(Tail(segs),
                         (IF out = << >> THEN out ELSE SubSeq(out, 1, Len(out) - 1))
                         \o (IF Len(segs) = 1 THEN << "" >> ELSE << >>))
    ELSE IF Head(segs) = "."
         THEN RemoveDots(Tail(segs), out \o (IF Len(segs) = 1 THEN << "" >> ELSE << >>))
    ELSE RemoveDots(Tail(segs), Append(out, Head(segs)))

\* mutant: the reference is appended to the base: base.replace(/\/+$/, '')
\* + '/' + path.replace(/^\/+/, '')
ResolveUrlJoined(ref, base) ==
    SelectSeq(base, LAMBDA seg : seg # "") \o SelectSeq(ref.segs, LAMBDA seg : seg # "")

\* new URL(path, base): an empty reference keeps the path of the base, a
\* reference that starts with "/" replaces it, any other reference
\* replaces the last segment of the base
ResolveUrl(ref, base) ==
    IF ref.segs = << >> /\ ~ref.abs THEN base
    ELSE IF ref.abs THEN RemoveDots(ref.segs, << >>)
    ELSE RemoveDots(SubSeq(base, 1, Len(base) - 1) \o ref.segs, << >>)

\* a <= b on milliseconds
Leq(a, b) == a.big < b.big \/ (a.big = b.big /\ a.n <= b.n)

\* mutant: the timeout is not capped
MinFirst(a, b) == a

\* Math.min(a, b)
Min(a, b) == IF Leq(a, b) THEN a ELSE b

\* array.at(i): the element at index i, counted from the end when i is
\* negative; undefined outside the array
At(array, i) ==
    IF i >= 0
    THEN (IF i < Len(array) THEN {array[i + 1]} ELSE {})
    ELSE (IF -i <= Len(array) THEN {array[Len(array) + i + 1]} ELSE {})

\* mutant: retryDelay.at(attempt) ?? retryDelay.at(-1): the first delay of
\* the sequence is skipped
DelaySkipsFirst(delaysOption, att) ==
    IF att = 0 THEN 0
    ELSE IF At(delaysOption, att) # {} THEN The(At(delaysOption, att))
    ELSE The(At(delaysOption, -1))

\* attempt === 0 ? 0 : retryDelay.at(attempt - 1) ?? retryDelay.at(-1)
Delay(delaysOption, att) ==
    IF att = 0 THEN 0
    ELSE IF At(delaysOption, att - 1) # {} THEN The(At(delaysOption, att - 1))
    ELSE The(At(delaysOption, -1))

\* type?.startsWith(prefix)
StartsWith(type, prefix) == type # << >> /\ Head(type) = prefix

\* const format = type?.startsWith('text/plain') ? 'text' : ...
Format(type) ==
    IF StartsWith(type, "text/plain") THEN "text"
    ELSE IF StartsWith(type, "application/json") THEN "json"
    ELSE IF StartsWith(type, "multipart/form-data") THEN "formData"
    ELSE "blob"

\* mutant: Object.assign(client.headers, call.headers): the merge writes
\* into the headers map of the client options
ClientHeadersAssigned(client, call) ==
    [client EXCEPT !.headers = Spread(client.headers, call.headers)]

\* the client options object after the options were merged and the request
\* was built: url, query and headers are fresh objects, nothing is written
\* to client
ClientAfterCall(client, call) == client

\* mutant: the interceptor is called and what it returns is dropped
InterceptIgnored(fn, value, replacement) == value

\* fn?.(value) ?? value
Intercept(fn, value, replacement) ==
    IF fn = "replace" THEN replacement ELSE value

\* mutant: one AbortController shared by the calls
SharedController(c) == TRUE

\* abortController.abort() in the timeout closure of a call, seen from
\* another call whose abortController.signal.aborted is c: the controller
\* is a const of the call that armed the timer
OtherController(c) == c

\* ------------------------------------------------------- control helpers

\* mutant: attempt < retry: one attempt too few
LoopStopsEarly(att) == att < retry

\* mutant: attempt <= retry + 1: one attempt too many
LoopStopsLate(att) == att <= retry + 1

\* for (...; attempt <= retry; ...)
LoopContinues(att) == att <= retry

\* mutant: if (requestSuccess) break: a status outside the retry set is retried
BreakOnSuccessOnly(success, retryable) == success

\* mutant: if (!requestRetry) break: success no longer ends the loop
BreakIgnoresSuccess(success, retryable) == ~retryable

\* if (requestSuccess || !requestRetry) break
Break(success, retryable) == success \/ ~retryable

\* if (timeoutReset) clearTimeout(handle), (handle = 0): the handle
ResetHandle(h) == IF timeoutReset THEN Undefined ELSE h

\* mutant: if (timeoutReset) handle = 0: the handle is dropped, its timer survives
ResetKeepsTimers(h, tm) == tm

\* if (timeoutReset) clearTimeout(handle), (handle = 0): the armed timers
ResetTimers(h, tm) == IF timeoutReset THEN tm \ {h} ELSE tm

\* mutant: handle = setTimeout(...): a timer is armed on every attempt
ArmAlways(h) == TRUE

\* handle ||= setTimeout(...): a timer is armed only when handle is falsy
ArmNeeded(h) == h = Undefined

\* mutant: the clearTimeout(handle) after the loop is missing
ClearTimeoutMissing(h, tm) == tm

\* clearTimeout(handle) after the loop
ClearTimeout(h, tm) == tm \ {h}

\* new FetchError(request, response, error, status, body)
FetchError(req, resp, error, status, responseBody) ==
    [ kind |-> "FetchError", request |-> req, response |-> resp,
      error |-> error, status |-> status, body |-> responseBody ]

\* return { request, response, status: response.status, body: responseBody }
FetchResponseValue(req, resp, responseBody) ==
    [ kind |-> "return", request |-> req, response |-> resp.id,
      error |-> "undefined", status |-> resp.status, body |-> responseBody ]

\* mutant: catch (error) { throw new FetchError(undefined, undefined, error) }
\* around the construction of the URL and the Request
ConstructionFailureWrapped ==
    FetchError(Undefined, Undefined, "TypeError", NoStatus, "undefined")

\* new URL(..) or new Request(..) throws: the TypeError leaves call as it is
ConstructionFailure == [NoResult EXCEPT !.kind = "raw", !.error = "TypeError"]

\* the call of interceptor fn, when it is defined, with argument arg
Hook(name, fn, arg) ==
    IF fn = "undefined"
    THEN << >>
    ELSE << [hook |-> name, arg |-> arg, waits |-> waitCount, fetches |-> fetchCount] >>

\* the loop head up to the suspension in the wait, for loop variable att,
\* with tm the timers armed when the iteration starts
EnterAttempt(att, tm) ==
    /\ attempt' = att
    /\ handle' = ResetHandle(handle)
    /\ timers' = ResetTimers(handle, tm)
    /\ clearCount' = clearCount + Cardinality(tm \ ResetTimers(handle, tm))
    /\ waitCount' = waitCount + 1
    /\ delays' = Append(delays, Delay(retryDelay, att))
    /\ pc' = "wait"

\* mutant: fetch(request.clone()) on the retry attempts
FetchInputCloned(req, att) == IF att = 0 THEN req ELSE req * 10 + att

\* globalThis.fetch(request): what attempt att passes to the transport
FetchInput(req, att) == req

\* the continuation of the wait: arm the timeout if needed, issue the
\* transport call and suspend on it
AfterWait(tm) ==
    /\ handle' = IF ArmNeeded(handle) THEN attempt + 1 ELSE handle
    /\ timers' = IF ArmNeeded(handle) THEN tm \cup {attempt + 1} ELSE tm
    /\ armCount' = IF ArmNeeded(handle) THEN armCount + 1 ELSE armCount
    /\ armed' = IF ArmNeeded(handle) THEN Append(armed, timeout) ELSE armed
    /\ fetchCount' = fetchCount + 1
    /\ inFlight' = inFlight + 1
    /\ sent' = Append(sent, FetchInput(request, attempt))
    /\ pc' = "fetch"

\* mutant: the wait adds no abort listener: only its timer ends it
AbortDispatchUnheard(tm) ==
    /\ abortedIn' = pc
    /\ timers' = tm
    /\ UNCHANGED << handle, armCount, armed, waitEnds, fetchCount, inFlight, sent, pc >>

\* the abort event of the composed signal, dispatched when its first source
\* fires: the listener added by a pending wait resolves the wait, whose
\* continuation then runs; nothing else listens inside call
AbortDispatch(tm) ==
    /\ abortedIn' = pc
    /\ IF pc = "wait"
       THEN AfterWait(tm) /\ waitEnds' = Append(waitEnds, "aborted")
       ELSE /\ timers' = tm
            /\ UNCHANGED << handle, armCount, armed, waitEnds, fetchCount,
                            inFlight, sent, pc >>

\* a source fires while the composed signal has already fired: no event
NoDispatch(tm) ==
    /\ timers' = tm
    /\ UNCHANGED << abortedIn, handle, armCount, armed, waitEnds, fetchCount,
                    inFlight, sent, pc >>

\* the response interceptors: client, then call
InterceptResponse(resp) ==
    Intercept(callOptions.interceptResponse,
              Intercept(clientOptions.interceptResponse, resp, ClientResponse),
              CallResponse)

\* the calls of the response interceptors on resp
ResponseHooks(resp) ==
    Hook("client.interceptResponse", clientOptions.interceptResponse, resp.id)
    \o Hook("call.interceptResponse", callOptions.interceptResponse,
            Intercept(clientOptions.interceptResponse, resp, ClientResponse).id)

\* mutant: the body is taken after the response interceptors have run, from
\* the response they left
BodySourceIntercepted(resp) == InterceptResponse(resp).id

\* response[format]() or response.body, evaluated before the response
\* interceptors reassign response: the body is that of resp
BodySource(resp) == resp.id

\* mutant: the if (!requestSuccess) throw .. is missing
FinishIgnoresStatus(resp, success, responseBody) ==
    /\ bodySource' = BodySource(resp)
    /\ result' = FetchResponseValue(request, InterceptResponse(resp), responseBody)
    /\ intercepted' = intercepted \o ResponseHooks(resp)
    /\ pc' = "resolved"

\* mutant: the response interceptors run before the status is checked
FinishInterceptsFirst(resp, success, responseBody) ==
    /\ bodySource' = BodySource(resp)
    /\ intercepted' = intercepted \o ResponseHooks(resp)
    /\ IF ~success
       THEN /\ result' = FetchError(request, resp.id, "status", resp.status, responseBody)
            /\ pc' = "rejected"
       ELSE /\ result' = FetchResponseValue(request, InterceptResponse(resp), responseBody)
            /\ pc' = "resolved"

\* the lines after the body is available: the status error, or the
\* response interceptors and the return
Finish(resp, success, responseBody) ==
    /\ bodySource' = BodySource(resp)
    /\ IF ~success
       THEN /\ result' = FetchError(request, resp.id, "status", resp.status, responseBody)
            /\ pc' = "rejected"
            /\ UNCHANGED intercepted
       ELSE /\ result' = FetchResponseValue(request, InterceptResponse(resp), responseBody)
            /\ intercepted' = intercepted \o ResponseHooks(resp)
            /\ pc' = "resolved"

\* mutant: the body is read for the status and again for the return value
ReadBodyTwice(reads, resp, type) ==
    reads \o << [id |-> resp.id, format |-> Format(type)],
                [id |-> resp.id, format |-> Format(type)] >>

\* response[format](): the body of resp starts being read, by the reader
\* its content type selects
ReadBody(reads, resp, type) ==
    Append(reads, [id |-> resp.id, format |-> Format(type)])

\* the lines after the loop, up to the body read (suspends when parse)
ExitLoop(resp, success) ==
    /\ timers' = ClearTimeout(handle, timers)
    /\ clearCount' = clearCount + Cardinality(timers \ ClearTimeout(handle, timers))
    /\ UNCHANGED << attempt, handle, waitCount, delays >>
    /\ IF parse
       THEN /\ consumed' = ReadBody(consumed, resp, contentType)
            /\ pc' = "decode"
            /\ UNCHANGED << result, intercepted, bodySource >>
       ELSE Finish(resp, success, "stream") /\ UNCHANGED consumed

\* ----------------------------------------------------------------- state

\* the call has been invoked and has not run yet
InitCall ==
    /\ abortController = FALSE
    /\ pc = "start"
    /\ attempt = 0
    /\ handle = Undefined
    /\ timers = {}
    /\ response = NoResponse
    /\ requestSuccess = FALSE
    /\ requestRetry = FALSE
    /\ retry = 0
    /\ timeoutReset = FALSE
    /\ parse = FALSE
    /\ timeout = Ms(0)
    /\ retryDelay = << >>
    /\ retryStatus = {}
    /\ matchStatus = {}
    /\ url = << >>
    /\ requestBody = "undefined"
    /\ delays = << >>
    /\ armed = << >>
    /\ waitEnds = << >>
    /\ consumed = << >>
    /\ bodySource = Undefined
    /\ result = NoResult
    /\ inFlight = 0
    /\ fetchCount = 0
    /\ waitCount = 0
    /\ armCount = 0
    /\ clearCount = 0
    /\ statuses = << >>
    /\ fired = NoFire
    /\ abortedIn = IF "aborted" \in {clientSignal, callSignal} THEN "start" ELSE "none"
    /\ thrown = "none"
    /\ lateResponse = FALSE
    /\ request = Undefined
    /\ headers = [k \in HeaderKeys |-> "absent"]
    /\ query = [k \in QueryKeys |-> "absent"]
    /\ intercepted = << >>
    /\ sent = << >>
    /\ peer = PeerIdle

\* calls over the options of the attempt loop, the status sets and the
\* signals, without interceptors, headers, query or body
Init ==
    /\ \E o \in StatusOptions, r \in 0..MaxRetry, t \in BOOLEAN, p \in BOOLEAN :
          /\ clientOptions = [BaseOptions EXCEPT !.status = o.client.status,
                                                 !.retryStatus = o.client.retryStatus]
          /\ callOptions = [NoOptions EXCEPT !.status = o.call.status,
                                             !.retryStatus = o.call.retryStatus,
                                             !.retry = {r},
                                             !.timeoutReset = {t},
                                             !.parse = {p}]
    /\ path = EmptyPath
    /\ contentType = << >>
    /\ clientSignal \in SignalStates
    /\ callSignal \in SignalStates
    /\ construction \in Constructions
    /\ method = "POST"
    /\ body = "undefined"
    /\ InitCall

\* calls over the interceptor options
InitIntercept ==
    /\ \E cq \in Interceptors, cp \in Interceptors :
          clientOptions = [BaseOptions EXCEPT !.interceptRequest = cq,
                                              !.interceptResponse = cp]
    /\ \E kq \in Interceptors, kp \in Interceptors, r \in 0..MaxRetry, p \in BOOLEAN :
          callOptions = [NoOptions EXCEPT !.interceptRequest = kq,
                                          !.interceptResponse = kp,
                                          !.retry = {r},
                                          !.parse = {p}]
    /\ path = EmptyPath
    /\ contentType = << >>
    /\ clientSignal = "idle"
    /\ callSignal = "idle"
    /\ construction \in Constructions
    /\ method = "POST"
    /\ body = "undefined"
    /\ InitCall

\* calls over the headers and query maps, the method and the body
InitMerge ==
    /\ path = EmptyPath
    /\ contentType = << >>
    /\ \E h \in [HeaderKeys -> {"absent", "client"}],
          q \in [QueryKeys -> {"absent", "client"}] :
          clientOptions = [BaseOptions EXCEPT !.headers = h, !.query = q]
    /\ \E h \in [HeaderKeys -> {"absent", "undefined", "call"}],
          q \in [QueryKeys -> {"absent", "undefined", "call"}] :
          callOptions = [NoOptions EXCEPT !.headers = h, !.query = q]
    /\ clientSignal = "idle"
    /\ callSignal = "idle"
    /\ construction = "ok"
    /\ method \in {"GET", "POST"}
    /\ body \in {"undefined", "object", "text"}
    /\ InitCall

\* two calls made with the same options, without external signals
InitPair ==
    /\ \E r \in 0..MaxRetry, t \in BOOLEAN :
          clientOptions = [BaseOptions EXCEPT !.retry = {r}, !.timeoutReset = {t}]
    /\ callOptions = NoOptions
    /\ path = EmptyPath
    /\ contentType = << >>
    /\ clientSignal = "none"
    /\ callSignal = "none"
    /\ construction = "ok"
    /\ method = "POST"
    /\ body = "undefined"
    /\ InitCall

\* calls over the two levels of the scalar options
InitOptions ==
    /\ \E o \in StatusOptions :
          /\ \E r \in {{}, {MaxRetry}}, t \in {{}, {TRUE}}, p \in {{}, {FALSE}},
                m \in {{}, {Ms(50)}}, d \in {{}, {<< 10, 20 >>}} :
                clientOptions = [BaseOptions EXCEPT !.retry = r, !.timeoutReset = t,
                                                    !.parse = p, !.timeout = m,
                                                    !.retryDelay = d,
                                                    !.status = o.client.status,
                                                    !.retryStatus = o.client.retryStatus]
          /\ \E r \in {{}, {1}}, t \in {{}, {FALSE}}, p \in {{}, {TRUE}},
                m \in {{}, {Above(0)}, {Infinity}}, d \in {{}, {<< 5 >>}} :
                callOptions = [NoOptions EXCEPT !.retry = r, !.timeoutReset = t,
                                                !.parse = p, !.timeout = m,
                                                !.retryDelay = d,
                                                !.status = o.call.status,
                                                !.retryStatus = o.call.retryStatus]
    /\ path = EmptyPath
    /\ contentType = << >>
    /\ clientSignal = "idle"
    /\ callSignal = "idle"
    /\ construction = "ok"
    /\ method = "GET"
    /\ body = "undefined"
    /\ InitCall

\* calls over the content type of the responses and the parse option
InitDecode ==
    /\ clientOptions = BaseOptions
    /\ \E r \in 0..MaxRetry, p \in {{}, {TRUE}, {FALSE}} :
          callOptions = [NoOptions EXCEPT !.retry = {r}, !.parse = p]
    /\ path = EmptyPath
    /\ contentType \in ContentTypes
    /\ clientSignal = "idle"
    /\ callSignal = "idle"
    /\ construction = "ok"
    /\ method = "GET"
    /\ body = "undefined"
    /\ InitCall

\* calls over the base URL, at client and at call level, and the path
InitUrl ==
    /\ \E b \in Bases : clientOptions = [NoOptions EXCEPT !.url = {b}]
    /\ \E u \in {{}} \cup {{b} : b \in Bases}, r \in 0..MaxRetry :
          callOptions = [NoOptions EXCEPT !.url = u, !.retry = {r}]
    /\ path \in Paths
    /\ contentType = << "application/json", "" >>
    /\ clientSignal = "idle"
    /\ callSignal = "idle"
    /\ construction = "ok"
    /\ method = "GET"
    /\ body = "undefined"
    /\ InitCall

\* calls over the method, the body and the request interceptors
InitBody ==
    /\ \E cq \in Interceptors :
          clientOptions = [BaseOptions EXCEPT !.interceptRequest = cq]
    /\ \E kq \in Interceptors, r \in 0..MaxRetry :
          callOptions = [NoOptions EXCEPT !.interceptRequest = kq, !.retry = {r}]
    /\ path = EmptyPath
    /\ contentType = << >>
    /\ clientSignal = "idle"
    /\ callSignal = "idle"
    /\ construction = "ok"
    /\ method \in {"GET", "POST"}
    /\ body \in {"undefined", "object", "text"}
    /\ InitCall

\* call(...) is invoked: the synchronous prefix up to the first wait, or
\* up to the error thrown while the URL or the Request is built
Start ==
    /\ pc = "start"
    /\ IF construction # "ok"
       THEN /\ result' = ConstructionFailure
            /\ pc' = "rejected"
            /\ UNCHANGED << built, intercepted, attempt, handle, timers,
                            clearCount, waitCount, delays >>
       ELSE /\ clientOptions' = ClientAfterCall(clientOptions, callOptions)
            /\ url' = ResolveUrl(path, Coalesce(callOptions.url, clientOptions.url, << >>))
            /\ requestBody' = RequestBody(method, body)
            /\ query' = SearchParams(Spread(clientOptions.query, callOptions.query))
            /\ headers' = HeadersInit(MergedHeaders(clientOptions, callOptions, method, body))
            /\ request' = Intercept(callOptions.interceptRequest,
                                    Intercept(clientOptions.interceptRequest,
                                              TheRequest, ClientRequest),
                                    CallRequest)
            /\ intercepted' =
                  Hook("client.interceptRequest", clientOptions.interceptRequest, TheRequest)
                  \o Hook("call.interceptRequest", callOptions.interceptRequest,
                          Intercept(clientOptions.interceptRequest, TheRequest, ClientRequest))
            /\ parse' = Coalesce(callOptions.parse, clientOptions.parse, TRUE)
            /\ timeout' = Min(Coalesce(callOptions.timeout, clientOptions.timeout, Infinity),
                              MaxTimerDelay)
            /\ timeoutReset' = Coalesce(callOptions.timeoutReset,
                                        clientOptions.timeoutReset, FALSE)
            /\ retry' = Coalesce(callOptions.retry, clientOptions.retry, DefaultRetry)
            /\ retryDelay' = Coalesce(callOptions.retryDelay, clientOptions.retryDelay,
                                      DefaultRetryDelay)
            /\ retryStatus' = Coalesce(callOptions.retryStatus, clientOptions.retryStatus,
                                       DefaultRetryStatus)
            /\ matchStatus' = Coalesce(callOptions.status, clientOptions.status,
                                       DefaultMatchStatus)
            /\ LoopContinues(0)'
            /\ EnterAttempt(0, timers)
            /\ UNCHANGED result
    /\ UNCHANGED << inputs, clientSignal, callSignal, abortController, response,
                    requestSuccess, requestRetry, inFlight, fetchCount,
                    armCount, statuses, fired, abortedIn, thrown, lateResponse,
                    sent, armed, waitEnds, consumed, bodySource, peer >>

\* the timer of the wait fires
WaitElapsed ==
    /\ pc = "wait"
    /\ AfterWait(timers)
    /\ waitEnds' = Append(waitEnds, "elapsed")
    /\ UNCHANGED << inputs, built, clientSignal, callSignal, abortController, attempt,
                    response, requestSuccess, requestRetry, result, waitCount,
                    clearCount, statuses, fired, abortedIn, thrown, lateResponse,
                    intercepted, delays, consumed, bodySource, peer >>

\* an armed timeout timer fires: () => abortController.abort()
TimeoutFire ==
    \E id \in timers :
        /\ abortController' = TRUE
        /\ fired' = [id |-> id, attempt |-> attempt, pc |-> pc]
        /\ IF SignalAborted THEN NoDispatch(timers \ {id})
                            ELSE AbortDispatch(timers \ {id})
        /\ peer' = [peer EXCEPT !.abortController = OtherController(@)]
        /\ UNCHANGED << inputs, built, clientSignal, callSignal, attempt, response,
                        requestSuccess, requestRetry, result, waitCount,
                        clearCount, statuses, thrown, lateResponse, intercepted,
                        delays, consumed, bodySource >>

\* the owner of client.signal aborts it while the call is pending
ClientAbort ==
    /\ clientSignal = "idle"
    /\ pc \in {"wait", "fetch", "decode"}
    /\ clientSignal' = "aborted"
    /\ IF SignalAborted THEN NoDispatch(timers) ELSE AbortDispatch(timers)
    /\ UNCHANGED << inputs, built, callSignal, abortController, attempt, response,
                    requestSuccess, requestRetry, result, waitCount, clearCount,
                    statuses, fired, thrown, lateResponse, intercepted, delays,
                    consumed, bodySource, peer >>

\* the owner of call.signal aborts it while the call is pending
CallAbort ==
    /\ callSignal = "idle"
    /\ pc \in {"wait", "fetch", "decode"}
    /\ callSignal' = "aborted"
    /\ IF SignalAborted THEN NoDispatch(timers) ELSE AbortDispatch(timers)
    /\ UNCHANGED << inputs, built, clientSignal, abortController, attempt, response,
                    requestSuccess, requestRetry, result, waitCount, clearCount,
                    statuses, fired, thrown, lateResponse, intercepted, delays,
                    consumed, bodySource, peer >>

\* the transport answers the call in flight with a response of status s
FetchResponse(s) ==
    /\ pc = "fetch"
    /\ ~SignalAborted
    /\ ~BodyUsed
    /\ inFlight' = inFlight - 1
    /\ response' = [id |-> attempt + 1, status |-> s]
    /\ requestSuccess' = Includes(matchStatus, s)
    /\ requestRetry' = Includes(retryStatus, s)
    /\ statuses' = Append(statuses, s)
    /\ lateResponse' = (lateResponse \/ AnySourceFired)
    /\ IF \/ Break(Includes(matchStatus, s), Includes(retryStatus, s))
          \/ ~LoopContinues(attempt + 1)
       THEN ExitLoop([id |-> attempt + 1, status |-> s], Includes(matchStatus, s))
       ELSE EnterAttempt(attempt + 1, timers)
            /\ UNCHANGED << result, intercepted, consumed, bodySource >>
    /\ UNCHANGED << inputs, built, clientSignal, callSignal, abortController,
                    fetchCount, armCount, fired, abortedIn, thrown, sent, armed,
                    waitEnds, peer >>

\* mutant of FetchThrow: catch (error) { continue } while attempts remain
FetchThrowRetried ==
    /\ pc = "fetch"
    /\ inFlight' = inFlight - 1
    /\ thrown' = TransportError
    /\ IF LoopContinues(attempt + 1)
       THEN EnterAttempt(attempt + 1, timers) /\ UNCHANGED result
       ELSE /\ result' = FetchError(request, response.id, TransportError,
                                    NoStatus, "undefined")
            /\ pc' = "rejected"
            /\ UNCHANGED << attempt, handle, timers, waitCount, clearCount, delays >>
    /\ UNCHANGED << inputs, built, clientSignal, callSignal, abortController,
                    response, requestSuccess, requestRetry, fetchCount,
                    armCount, statuses, fired, abortedIn, lateResponse,
                    intercepted, sent, armed, waitEnds, consumed, bodySource, peer >>

\* mutant of FetchThrow: catch (error) { break }: the failure is swallowed
\* and the call returns what it has
FetchThrowSwallowed ==
    /\ pc = "fetch"
    /\ inFlight' = inFlight - 1
    /\ result' = FetchResponseValue(request, response, "undefined")
    /\ thrown' = TransportError
    /\ pc' = "resolved"
    /\ UNCHANGED << inputs, built, clientSignal, callSignal, abortController, attempt,
                    handle, timers, response, requestSuccess, requestRetry,
                    fetchCount, waitCount, armCount, clearCount, statuses,
                    fired, abortedIn, lateResponse, intercepted, sent, delays,
                    armed, waitEnds, consumed, bodySource, peer >>

\* the transport call in flight throws: a network error, or the abort
\* reason once the signal of the request has fired
FetchThrow ==
    /\ pc = "fetch"
    /\ inFlight' = inFlight - 1
    /\ result' = FetchError(request, response.id,
                            TransportError,
                            NoStatus, "undefined")
    /\ thrown' = TransportError
    /\ pc' = "rejected"
    /\ UNCHANGED << inputs, built, clientSignal, callSignal, abortController, attempt,
                    handle, timers, response, requestSuccess, requestRetry,
                    fetchCount, waitCount, armCount, clearCount, statuses,
                    fired, abortedIn, lateResponse, intercepted, sent, delays,
                    armed, waitEnds, consumed, bodySource, peer >>

\* await response[format]() completes
DecodeDone ==
    /\ pc = "decode"
    /\ Finish(response, requestSuccess, "decoded")
    /\ UNCHANGED << inputs, built, clientSignal, callSignal, abortController, attempt,
                    handle, timers, response, requestSuccess, requestRetry,
                    inFlight, fetchCount, waitCount, armCount, clearCount,
                    statuses, fired, abortedIn, thrown, lateResponse, sent,
                    delays, armed, waitEnds, consumed, peer >>

\* await response[format]() throws because the signal of the request fired
\* while the body was read: the error leaves call as it is
DecodeThrow ==
    /\ pc = "decode"
    /\ SignalAborted
    /\ result' = [NoResult EXCEPT !.kind = "raw", !.error = "AbortError"]
    /\ pc' = "rejected"
    /\ UNCHANGED << inputs, built, clientSignal, callSignal, abortController, attempt,
                    handle, timers, response, requestSuccess, requestRetry,
                    inFlight, fetchCount, waitCount, armCount, clearCount,
                    statuses, fired, abortedIn, thrown, lateResponse,
                    intercepted, sent, delays, armed, waitEnds, consumed, bodySource, peer >>

\* ------------------------------------------------------- the second call

\* the second call after its wait: the continuation of AfterWait
PeerAfterWait(p) ==
    [p EXCEPT !.handle = IF ArmNeeded(p.handle) THEN p.attempt + 1 ELSE @,
              !.timers = IF ArmNeeded(p.handle) THEN @ \cup {p.attempt + 1} ELSE @,
              !.pc = "fetch"]

\* the second call at its loop head, for loop variable att
PeerEnterAttempt(p, att) ==
    [p EXCEPT !.attempt = att,
              !.handle = ResetHandle(@),
              !.timers = ResetTimers(p.handle, @),
              !.pc = "wait"]

\* the second call is invoked, after the first one, with the same options
PeerStart ==
    /\ peer.pc = "start"
    /\ pc # "start"
    /\ LoopContinues(0)
    /\ peer' = PeerEnterAttempt(peer, 0)
    /\ UNCHANGED callVars

\* the timer of the wait of the second call fires
PeerWaitElapsed ==
    /\ peer.pc = "wait"
    /\ peer' = PeerAfterWait(peer)
    /\ UNCHANGED callVars

\* an armed timeout timer of the second call fires; its signal is composed
\* of its own abortController only, the external signals being absent
PeerTimeoutFire ==
    \E id \in peer.timers :
        /\ peer' = IF peer.pc = "wait" /\ ~peer.abortController
                   THEN PeerAfterWait([peer EXCEPT !.timers = @ \ {id},
                                                   !.abortController = TRUE,
                                                   !.fired = TRUE])
                   ELSE [peer EXCEPT !.timers = @ \ {id},
                                     !.abortController = TRUE,
                                     !.fired = TRUE]
        /\ abortController' = OtherController(abortController)
        /\ UNCHANGED << inputs, built, clientSignal, callSignal, pc, attempt,
                        handle, timers, response, requestSuccess, requestRetry,
                        result, inFlight, fetchCount, waitCount, armCount,
                        clearCount, statuses, fired, abortedIn, thrown,
                        lateResponse, intercepted, sent, delays, armed,
                        waitEnds, consumed, bodySource >>

\* the transport answers the second call with a response of status s
PeerFetchResponse(s) ==
    /\ peer.pc = "fetch"
    /\ ~peer.abortController
    /\ peer' =
          IF \/ Break(Includes(Coalesce(callOptions.status, clientOptions.status,
                                        DefaultMatchStatus), s),
                      Includes(Coalesce(callOptions.retryStatus, clientOptions.retryStatus,
                                        DefaultRetryStatus), s))
             \/ ~LoopContinues(peer.attempt + 1)
          THEN [peer EXCEPT !.timers = ClearTimeout(peer.handle, @), !.pc = "settled"]
          ELSE PeerEnterAttempt(peer, peer.attempt + 1)
    /\ UNCHANGED callVars

\* the transport call of the second call throws
PeerFetchThrow ==
    /\ peer.pc = "fetch"
    /\ peer' = [peer EXCEPT !.pc = "settled"]
    /\ UNCHANGED callVars

\* ------------------------------------------------------- specifications

Next ==
    \/ Start
    \/ WaitElapsed
    \/ TimeoutFire
    \/ ClientAbort
    \/ CallAbort
    \/ \E s \in Statuses : FetchResponse(s)
    \/ FetchThrow
    \/ DecodeDone
    \/ DecodeThrow

Spec == Init /\ [][Next]_vars

\* one call, over the interceptor options
SpecIntercept == InitIntercept /\ [][Next]_vars

\* one call, over the headers and query maps, the method and the body
SpecMerge == InitMerge /\ [][Next]_vars

\* one call, over the two levels of the scalar options
SpecOptions == InitOptions /\ [][Next]_vars

\* one call, over the content type of the responses and the parse option
SpecDecode == InitDecode /\ [][Next]_vars

\* one call, over the base URL and the path
SpecUrl == InitUrl /\ [][Next]_vars

\* one call, over the method, the body and the request interceptors
SpecBody == InitBody /\ [][Next]_vars

\* two calls made with the same options run concurrently; the external
\* signals are absent, so no body read throws
NextPair ==
    \/ Start
    \/ WaitElapsed
    \/ TimeoutFire
    \/ \E s \in Statuses : FetchResponse(s)
    \/ FetchThrow
    \/ DecodeDone
    \/ PeerStart
    \/ PeerWaitElapsed
    \/ PeerTimeoutFire
    \/ \E s \in Statuses : PeerFetchResponse(s)
    \/ PeerFetchThrow

SpecPair == InitPair /\ [][NextPair]_vars

TypeOK ==
    /\ retry \in 0..MaxRetry
    /\ pc \in {"start", "wait", "fetch", "decode", "resolved", "rejected"}
    /\ attempt \in 0..retry
    /\ handle \in 0..(retry + 1)
    /\ timers \subseteq 1..(retry + 1)
    /\ inFlight \in 0..1
    /\ result.kind \in {"pending", "return", "FetchError", "raw"}
    /\ request \in {Undefined, TheRequest, ClientRequest, CallRequest}
    /\ Len(sent) = fetchCount
    /\ Len(intercepted) <= 4
    /\ peer.attempt \in 0..retry
    /\ peer.timers \subseteq 1..(retry + 1)

\* Fairness the runtime gives: an armed timer eventually fires, a transport
\* call in flight eventually answers or throws, a body read eventually ends.
\* The owners of the external signals are under no obligation to abort.
FairSpec ==
    /\ Spec
    /\ WF_vars(Start)
    /\ WF_vars(WaitElapsed)
    /\ WF_vars(TimeoutFire)
    /\ WF_vars(FetchThrow)
    /\ WF_vars(DecodeDone)

\* ------------------------------------------------------------------ claims

\* a status that fails the success set and matches the retry set
RetryableFailure(s) == ~Includes(matchStatus, s) /\ Includes(retryStatus, s)

\* the transport threw on a transport call of this call
TransportThrew == thrown # "none"

\* the call rejected with the status error of new FetchError(.., 'status', ..)
StatusRejected ==
    pc = "rejected" /\ result.kind = "FetchError" /\ result.error = "status"

\* the URL and the Request of the call can be built, so that the call
\* enters the attempt loop
Constructed == construction = "ok"

\* the responses so far follow the retry scenario: the request is built and
\* the transport answers with retryable failures only, then possibly one
\* success; no transport failure, no cancellation and no timeout firing
RetryScenario ==
    /\ Constructed
    /\ ~TransportThrew
    /\ ~AnySourceFired
    /\ \A i \in 1..Len(statuses) :
          \/ RetryableFailure(statuses[i])
          \/ i = Len(statuses) /\ Includes(matchStatus, statuses[i])

\* the attempt that has just been answered was answered with a success status
AnsweredSuccess ==
    Len(statuses) > 0 /\ Includes(matchStatus, statuses[Len(statuses)])

\* the number K of retryable failures the transport has answered with
Failures == IF AnsweredSuccess THEN Len(statuses) - 1 ELSE Len(statuses)

\* C1: in the retry scenario (K retryable failures, then a success) with
\* retry = N the call resolves iff N >= K. While K <= N failures have been
\* answered the call is still attempting; a success on attempt K+1 can only
\* arrive when K <= N and makes the call resolve; after N+1 failures (N < K)
\* the loop is over and the call rejects with the status error.
C1_RetryCount ==
    RetryScenario =>
        /\ Failures <= retry + 1
        /\ (~AnsweredSuccess /\ Failures <= retry) => pc \in {"start", "wait", "fetch"}
        /\ AnsweredSuccess =>
              /\ Failures <= retry
              /\ pc \in {"decode", "resolved"}
        /\ (~AnsweredSuccess /\ Failures = retry + 1) =>
              /\ pc \in {"decode", "rejected"}
              /\ pc = "rejected" => StatusRejected
        /\ pc = "resolved" => AnsweredSuccess /\ result.kind = "return"

\* C1 witness: the call resolved on its last attempt after retry >= 2 failures
C1_Witness ==
    /\ RetryScenario
    /\ pc = "resolved"
    /\ Failures = retry
    /\ retry >= 2

\* C2: once a transport call has thrown, the call is rejected and stays so,
\* and no later step starts a wait or issues a transport call, whatever
\* retry budget remains.
C2_ThrowNotRetried ==
    /\ [](TransportThrew => pc = "rejected" /\ result.kind = "FetchError")
    /\ [][TransportThrew => fetchCount' = fetchCount /\ waitCount' = waitCount]_vars
    /\ [][TransportThrew' /\ ~TransportThrew =>
            fetchCount' = fetchCount /\ waitCount' = waitCount /\ pc' = "rejected"]_vars

\* C2 witness: a transport call threw on the first attempt of a call that
\* had retry budget left
C2_Witness ==
    /\ TransportThrew
    /\ pc = "rejected"
    /\ attempt < retry

\* C3: whenever the call rejects because a transport call threw, on any
\* attempt, the FetchError carries the request and the thrown value as its
\* cause, and its response, status and body are absent.
C3_TransportErrorFields ==
    (TransportThrew /\ pc = "rejected") =>
        /\ result.kind = "FetchError"
        /\ result.request = request
        /\ result.error = thrown
        /\ result.response = Undefined
        /\ result.status = NoStatus
        /\ result.body = "undefined"

\* C4: in every state where the call has settled (resolved, rejected with a
\* status error, rejected with a transport failure) no timeout timer armed
\* by the call is still armed.
C4_TimeoutCleared == Settled => timers = {}

\* the attempt loop has ended with a response (the final response)
FinalResponseReceived ==
    \/ pc = "decode"
    \/ pc = "resolved"
    \/ pc = "rejected" /\ ~TransportThrew

\* the timeout timer fired while a transport call was in flight
FiredInFlight == fired.pc = "fetch"

\* the call rejected with the abort reason the transport threw
AbortRejected ==
    /\ pc = "rejected"
    /\ result.kind = "FetchError"
    /\ result.error = "AbortError"
    /\ thrown = "AbortError"

\* C5: once the response that ends the loop has arrived before the timeout
\* fired, the timer is disarmed and the timeout source has not fired, so
\* the timeout cannot reject the call; when the timer fires while a
\* transport call is in flight, the composed signal is aborted, that
\* transport call delivers no response and can only throw, and the call
\* rejects with the abort reason.
C5_Timeout ==
    /\ [](FinalResponseReceived => timers = {} /\ ~abortController)
    /\ [](FiredInFlight =>
            /\ abortController
            /\ SignalAborted
            /\ attempt = fired.attempt
            /\ Len(statuses) = fired.attempt
            /\ pc \in {"fetch", "rejected"}
            /\ pc = "rejected" => AbortRejected)
    /\ (FiredInFlight ~> pc = "rejected")

\* C5 witness: the timeout fired during the transport call of a retry
\* attempt and the call rejected with the abort reason
C5_Witness ==
    /\ FiredInFlight
    /\ fired.attempt >= 1
    /\ AbortRejected

\* the timeout timer fired while the loop was waiting or a transport call
\* was in flight
FiredInLoop == fired.pc \in {"wait", "fetch"}

\* C6: with timeoutReset false the timeout is armed exactly once, before
\* the first transport call, and is neither cleared nor re-armed inside the
\* loop: until it fires the one timer stays armed through every wait and
\* every attempt; when it fires during a wait or an attempt no response is
\* delivered any more and the call rejects.
C6_SingleDeadline ==
    /\ [](~timeoutReset =>
            /\ armCount = (IF fetchCount = 0 THEN 0 ELSE 1)
            /\ pc \in {"wait", "fetch"} => clearCount = 0
            /\ (pc \in {"wait", "fetch"} /\ fetchCount > 0 /\ fired = NoFire) =>
                  handle # Undefined /\ timers = {handle}
            /\ FiredInLoop =>
                  /\ attempt = fired.attempt
                  /\ Len(statuses) = fired.attempt
                  /\ pc \in {"wait", "fetch", "rejected"}
                  /\ pc = "rejected" => AbortRejected)
    /\ ((~timeoutReset /\ FiredInLoop) ~> pc = "rejected")

\* C6 witness: the single timer, armed on attempt 0, fired during the wait
\* before a retry attempt and the call rejected
C6_Witness ==
    /\ ~timeoutReset
    /\ fired.pc = "wait"
    /\ fired.attempt >= 1
    /\ fired.id = 1
    /\ AbortRejected

\* C7: with timeoutReset true, during every wait the previous timer is
\* cleared and the handle is reset; during every transport call exactly the
\* timer armed for that attempt is held (armed unless it has fired); a
\* timer is armed once per transport call; a timer only ever fires during
\* the attempt that armed it.
C7_TimeoutReset ==
    timeoutReset =>
        /\ pc = "wait" => timers = {} /\ handle = Undefined
        /\ pc = "fetch" =>
              /\ handle = attempt + 1
              /\ fired = NoFire => timers = {attempt + 1}
        /\ timers \subseteq {attempt + 1}
        /\ armCount = fetchCount
        /\ fired # NoFire => fired.id = fired.attempt + 1

\* C7 witness: the timer armed for the third attempt fired during it
C7_Witness ==
    /\ timeoutReset
    /\ fired.pc = "fetch"
    /\ fired.attempt = 2
    /\ fired.id = 3

\* C8 as stated: after any of the three sources has fired, no transport
\* call completes with a response and the call does not resolve.
C8_Original ==
    /\ ~lateResponse
    /\ AnySourceFired => pc # "resolved"

\* C8 amended: a source that has fired stays fired; no transport call
\* completes with a response after a source has fired; and the call does
\* not resolve when a source fired before the final response was received
\* (before the call, during a wait or during a transport call). A call that
\* resolved with a source fired is one whose signal first fired while the
\* body of the final response was being read.
C8_ComposedSignal ==
    /\ [](~lateResponse)
    /\ []((AnySourceFired /\ pc = "resolved") => (parse /\ abortedIn = "decode"))
    /\ []((AnySourceFired /\ abortedIn \in {"start", "wait", "fetch"}) =>
             pc \in {"start", "wait", "fetch", "rejected"})
    /\ [][AnySourceFired => AnySourceFired']_vars

\* C8 witness: call.signal fired during the wait before a retry attempt;
\* the transport call of that attempt threw and the call rejected
C8_Witness ==
    /\ callSignal = "aborted"
    /\ ~abortController
    /\ clientSignal # "aborted"
    /\ abortedIn = "wait"
    /\ attempt >= 1
    /\ AbortRejected

ReturnOf(i) ==
    [ kind |-> "return", request |-> request, response |-> i,
      error |-> "undefined", status |-> statuses[i],
      body |-> IF parse THEN "decoded" ELSE "stream" ]

\* a success response is the last one: the loop has ended and no wait or
\* transport call followed it
SuccessEndsLoop(i) ==
    /\ i = Len(statuses)
    /\ pc \in {"decode", "resolved", "rejected"}
    /\ fetchCount = i
    /\ waitCount = i

Terminal(s) == ~Includes(matchStatus, s) /\ ~Includes(retryStatus, s)

\* the status error call throws for the i-th response
StatusErrorOf(i) ==
    [ kind |-> "FetchError", request |-> request, response |-> i,
      error |-> "status", status |-> statuses[i],
      body |-> IF parse THEN "decoded" ELSE "stream" ]

\* the i-th response is the last one: the loop has ended and no wait or
\* transport call followed it
EndsLoop(i) ==
    /\ i = Len(statuses)
    /\ pc \in {"decode", "resolved", "rejected"}
    /\ fetchCount = i
    /\ waitCount = i

LoopEnded ==
    /\ Constructed
    /\ ~TransportThrew
    /\ pc \in {"decode", "resolved", "rejected"}

\* the final response fails the success classification
FinalFails == LoopEnded /\ ~Includes(matchStatus, response.status)

\* the status error for the final response: cause 'status', the response,
\* its status code and the body the decoding step produced for it
FinalStatusError ==
    [ kind |-> "FetchError", request |-> request, response |-> response.id,
      error |-> "status", status |-> response.status,
      body |-> IF parse THEN "decoded" ELSE "stream" ]

Matches(S, s) == \E r \in S : r = s \/ (r * 100 <= s /\ s < (r + 1) * 100)

\* the set an option resolves to: the call-level value, else the
\* client-level value, else the default
ResolvesTo(set, callOpt, clientOpt, default) ==
    /\ callOpt # {} => callOpt = {set}
    /\ (callOpt = {} /\ clientOpt # {}) => clientOpt = {set}
    /\ (callOpt = {} /\ clientOpt = {}) => set = default

\* C13: once the request is built, the success set and the retry set are
\* the status and retryStatus options, by default {0, 2} and
\* {408, 425, 429, 5}; every status code matches each of them as the rule
\* says; and after every response requestSuccess is whether its status
\* matches the success set and requestRetry whether it matches the retry
\* set.
C13_StatusMatching ==
    (Constructed /\ pc # "start") =>
        /\ ResolvesTo(matchStatus, callOptions.status, clientOptions.status, {0, 2})
        /\ ResolvesTo(retryStatus, callOptions.retryStatus, clientOptions.retryStatus,
                      {408, 425, 429, 5})
        /\ \A s \in Statuses :
              /\ Includes(matchStatus, s) <=> Matches(matchStatus, s)
              /\ Includes(retryStatus, s) <=> Matches(retryStatus, s)
        /\ Len(statuses) > 0 =>
              /\ response.status = statuses[Len(statuses)]
              /\ requestSuccess <=> Matches(matchStatus, response.status)
              /\ requestRetry <=> Matches(retryStatus, response.status)

\* C13 witness: with the default sets, 429 (an exact code of the retry set)
\* and 500 (its hundreds digit 5) were retried, and 200 (hundreds digit 2 of
\* the success set) made the call resolve
C13_Witness ==
    /\ callOptions.status = {} /\ clientOptions.status = {}
    /\ callOptions.retryStatus = {} /\ clientOptions.retryStatus = {}
    /\ statuses = << 429, 500, 200 >>
    /\ requestSuccess
    /\ pc = "resolved"

\* the calls of the request interceptors so far, in order
RequestHooks ==
    SelectSeq(intercepted,
              LAMBDA e : e.hook \in {"client.interceptRequest", "call.interceptRequest"})

\* the request the client interceptor leaves: the one it returned, else the
\* request that was built
LeftByClient ==
    IF clientOptions.interceptRequest = "replace" THEN ClientRequest ELSE TheRequest

\* the request the last interceptor leaves
LeftByInterceptors ==
    IF callOptions.interceptRequest = "replace" THEN CallRequest ELSE LeftByClient

\* each defined request interceptor called once, client first, on the
\* request current at that point, before any wait and any transport call
RequestHooksOnce ==
    (IF clientOptions.interceptRequest = "undefined"
     THEN << >>
     ELSE << [hook |-> "client.interceptRequest", arg |-> TheRequest,
              waits |-> 0, fetches |-> 0] >>)
    \o (IF callOptions.interceptRequest = "undefined"
        THEN << >>
        ELSE << [hook |-> "call.interceptRequest", arg |-> LeftByClient,
                 waits |-> 0, fetches |-> 0] >>)

\* C14: in a call whose request is built, from the first wait on and
\* through every retry attempt, each defined request interceptor has been
\* called exactly once, the client interceptor before the call interceptor,
\* before any wait and any transport call, the call interceptor on the
\* request the client interceptor left; the current request is the one the
\* last interceptor left (the one it returned, else the one it was given),
\* and every transport call was issued with that request. No request
\* interceptor runs before the call or when the request cannot be built.
C14_RequestInterceptors ==
    /\ (Constructed /\ pc # "start") =>
          /\ RequestHooks = RequestHooksOnce
          /\ request = LeftByInterceptors
          /\ Len(sent) = fetchCount
          /\ \A i \in 1..Len(sent) : sent[i] = LeftByInterceptors
    /\ (~Constructed \/ pc = "start") => RequestHooks = << >>

\* C14 witness: the client interceptor returned a request, the call
\* interceptor returned nothing, and the call settled after a retry, both
\* transport calls having been issued with the client interceptor's request
C14_Witness ==
    /\ clientOptions.interceptRequest = "replace"
    /\ callOptions.interceptRequest = "void"
    /\ Settled
    /\ Len(RequestHooks) = 2
    /\ sent = << ClientRequest, ClientRequest >>

\* the calls of the response interceptors so far, in order
ResponseHooksRun ==
    SelectSeq(intercepted,
              LAMBDA e : e.hook \in {"client.interceptResponse", "call.interceptResponse"})

\* each defined response interceptor called once, client first, after the
\* last transport call: the client interceptor on the final response, the
\* call interceptor on the response the client interceptor left
ResponseHooksOnce ==
    (IF clientOptions.interceptResponse = "undefined"
     THEN << >>
     ELSE << [hook |-> "client.interceptResponse", arg |-> Len(statuses),
              waits |-> waitCount, fetches |-> fetchCount] >>)
    \o (IF callOptions.interceptResponse = "undefined"
        THEN << >>
        ELSE << [hook |-> "call.interceptResponse",
                 arg |-> IF clientOptions.interceptResponse = "replace"
                         THEN ClientResponse.id ELSE Len(statuses),
                 waits |-> waitCount, fetches |-> fetchCount] >>)

\* C15: while the call has not resolved (before and during every attempt,
\* after an intermediate response, during the body read, and in a call
\* that rejected with a transport failure, a status error or any other
\* error) no response interceptor has run; in a call that resolved each
\* defined response interceptor has run exactly once, the client
\* interceptor before the call interceptor, on the final response, which
\* was classified successful.
C15_ResponseInterceptors ==
    /\ pc # "resolved" => ResponseHooksRun = << >>
    /\ pc = "resolved" =>
          /\ ResponseHooksRun = ResponseHooksOnce
          /\ response.id = Len(statuses)
          /\ requestSuccess
          /\ Matches(matchStatus, response.status)

\* C15 witness: a call with both response interceptors resolved on a retry
\* attempt, after an intermediate response no interceptor was run on
C15_Witness ==
    /\ pc = "resolved"
    /\ clientOptions.interceptResponse = "replace"
    /\ callOptions.interceptResponse = "void"
    /\ Len(statuses) = 2
    /\ Len(ResponseHooksRun) = 2
    /\ ResponseHooksRun[1].arg = 2
    /\ result.response = ClientResponse.id

\* C16: under the fairness of FairSpec (timers fire, a transport call in
\* flight returns a response or throws, a body read ends) every call
\* eventually resolves or rejects, for every retry count and both values of
\* timeoutReset, and once settled it stays as it settled; a call in which a
\* transport call threw never resolves, and a call whose final response
\* fails the success classification never resolves.
C16_Settles ==
    /\ <>Settled
    /\ [][Settled => pc' = pc /\ result' = result]_vars
    /\ [](TransportThrew => pc # "resolved")
    /\ [](FinalFails => pc # "resolved")

\* C16 witness: a call with timeoutReset and two retries saw two retryable
\* responses and then a transport failure, and settled by rejecting
C16_Witness ==
    /\ Settled
    /\ timeoutReset
    /\ retry >= 2
    /\ Len(statuses) = 2
    /\ TransportThrew
    /\ pc = "rejected"

\* the state the attempt loop of the call keeps: its abort source, its
\* timeout handle and timers, its attempt counter and where it is suspended
LoopState == << abortController, handle, timers, attempt, pc >>

\* C17: of two calls made concurrently with the same options, every step
\* changes the abort source, the timeout handle, the attempt counter and the
\* position of at most one: the timeout of one call firing leaves the other
\* call, waiting or in its transport call, as it was, and an attempt counted
\* by one call leaves the counter of the other unchanged; the abort source
\* of a call has fired only if a timeout timer of that same call fired.
C17_NoSharedState ==
    /\ [][fired' # fired => peer' = peer]_vars
    /\ [][peer'.fired # peer.fired => LoopState' = LoopState]_vars
    /\ [][LoopState' # LoopState => peer' = peer]_vars
    /\ [][peer' # peer => LoopState' = LoopState]_vars
    /\ [](abortController => fired # NoFire)
    /\ [](peer.abortController => peer.fired)

\* C17 witness: the timeout of one call fired during its first attempt
\* while the other call, on a retry attempt, is waiting or in its transport
\* call with its own abort source not fired and its own timer armed
C17_Witness ==
    /\ abortController
    /\ fired.attempt = 0
    /\ attempt = 0
    /\ peer.pc \in {"wait", "fetch"}
    /\ peer.attempt >= 1
    /\ ~peer.abortController
    /\ peer.timers # {}

\* C18: no step of a call changes the client options object: its url, its
\* query map, its headers map and its scalar options keep the values they
\* had when the call was made, also in the step that merges the headers,
\* adds the JSON content-type header and appends the query parameters.
C18_ClientUnchanged == [][clientOptions' = clientOptions]_vars

\* C18 witness: a settled call that added the JSON content-type header and
\* appended a call-level query parameter, neither of which the client
\* options hold
C18_Witness ==
    /\ Settled
    /\ headers["content-type"] = "application/json"
    /\ clientOptions.headers["content-type"] = "absent"
    /\ headers["x-key"] = "call"
    /\ clientOptions.headers["x-key"] = "client"
    /\ query["q"] = "call"
    /\ clientOptions.query["q"] = "absent"

\* C19: in a call whose URL or Request cannot be built, no wait is started,
\* no timeout timer is armed and no transport call is issued, and the call
\* rejects with the raw TypeError, not with a FetchError.
C19_ConstructionError ==
    ~Constructed =>
        /\ pc \in {"start", "rejected"}
        /\ waitCount = 0
        /\ armCount = 0
        /\ timers = {}
        /\ fetchCount = 0
        /\ sent = << >>
        /\ pc = "rejected" =>
              /\ result.kind = "raw"
              /\ result.error = "TypeError"
              /\ result.request = Undefined
              /\ result.response = Undefined

\* C19 witness: a call with retries whose Request could not be built has
\* rejected
C19_Witness ==
    /\ construction = "init"
    /\ \E r \in callOptions.retry : r >= 1
    /\ pc = "rejected"
    /\ result.kind = "raw"

\* the value of an entry that is defined
Defined(v) == v \notin {"absent", "undefined"}

\* the entry that reaches the request when undefined entries are dropped
\* before the merge: the call-level value if defined, else the client-level
\* value if defined
MergedEntry(clientEntry, callEntry) ==
    IF Defined(callEntry) THEN callEntry
    ELSE IF Defined(clientEntry) THEN clientEntry
    ELSE "absent"

\* C20: once the request is built, every query parameter and every header
\* (the content-type of a JSON body aside) is the call-level value when the
\* call-level entry is defined, else the client-level value when that one
\* is defined: an undefined call-level entry neither overwrites nor removes
\* the client-level entry.
C20_UndefinedDropped ==
    (Constructed /\ pc # "start") =>
        /\ \A k \in QueryKeys :
              query[k] = MergedEntry(clientOptions.query[k], callOptions.query[k])
        /\ \A k \in HeaderKeys :
              \/ k = "content-type" /\ IsJson(method, body)
              \/ headers[k] = MergedEntry(clientOptions.headers[k], callOptions.headers[k])

\* the options of the call have been resolved
Resolved == Constructed /\ pc # "start"

\* value v is the call-level value when there is one, else the client-level
\* value when there is one, else the default
OptionIs(v, callOpt, clientOpt, default) ==
    /\ callOpt # {} => v \in callOpt
    /\ (callOpt = {} /\ clientOpt # {}) => v \in clientOpt
    /\ (callOpt = {} /\ clientOpt = {}) => v = default

\* C21: once the options are resolved, parse, timeoutReset, retry,
\* retryDelay, retryStatus and status each hold the call-level value when it
\* is defined, else the client-level value when it is defined, else the
\* default (true, false, 0, [100, 200, 400, 800, 1600], [408, 425, 429, 5],
\* [0, 2]); the timeout holds the value resolved the same way, with default
\* Infinity, as far as the timer ceiling lets it; and a settled call that had
\* no retry option at either level has issued exactly one transport call.
C21_OptionResolution ==
    Resolved =>
        /\ OptionIs(parse, callOptions.parse, clientOptions.parse, TRUE)
        /\ OptionIs(timeoutReset, callOptions.timeoutReset,
                    clientOptions.timeoutReset, FALSE)
        /\ OptionIs(retry, callOptions.retry, clientOptions.retry, 0)
        /\ OptionIs(retryDelay, callOptions.retryDelay, clientOptions.retryDelay,
                    << 100, 200, 400, 800, 1600 >>)
        /\ OptionIs(retryStatus, callOptions.retryStatus, clientOptions.retryStatus,
                    {408, 425, 429, 5})
        /\ OptionIs(matchStatus, callOptions.status, clientOptions.status, {0, 2})
        /\ \E v \in {Ms(50), MaxTimerDelay, Above(0), Infinity} :
              /\ OptionIs(v, callOptions.timeout, clientOptions.timeout, Infinity)
              /\ timeout = IF Leq(v, MaxTimerDelay) THEN v ELSE MaxTimerDelay
        /\ (Settled /\ callOptions.retry = {} /\ clientOptions.retry = {})
              => fetchCount = 1

\* C21 witness: a call whose retry, parse and timeoutReset options are defined
\* at both levels with different values has settled after the two transport
\* calls that the call-level retry allows
C21_Witness ==
    /\ Settled
    /\ callOptions.retry = {1}
    /\ clientOptions.retry = {MaxRetry}
    /\ callOptions.parse = {TRUE}
    /\ clientOptions.parse = {FALSE}
    /\ callOptions.timeoutReset = {FALSE}
    /\ clientOptions.timeoutReset = {TRUE}
    /\ retry = 1
    /\ parse
    /\ ~timeoutReset
    /\ fetchCount = 2

\* the content-type entry of the merged headers, before the body is looked at
SuppliedContentType ==
    Spread(clientOptions.headers, callOptions.headers)["content-type"]

\* C22: once the request is built, a GET or HEAD request has no body; a
\* plain object or array body of any other method is sent as its JSON text;
\* and the content-type header of such a request is the one the merged
\* headers supplied when they supplied one, application/json only when they
\* supplied none.
C22_ContentTypeKept ==
    Resolved =>
        /\ method \in {"GET", "HEAD"} => requestBody = "undefined"
        /\ (method \notin {"GET", "HEAD"} /\ body = "object") =>
              /\ requestBody = "JSON.stringify(object)"
              /\ Defined(SuppliedContentType)
                    => headers["content-type"] = SuppliedContentType
              /\ SuppliedContentType = "absent"
                    => headers["content-type"] = "application/json"

\* C23: a body read is made by the reader the content type of the response
\* selects, by prefix and in this order: text for text/plain, json for
\* application/json, formData for multipart/form-data, URLSearchParams for
\* application/x-www-form-urlencoded, blob otherwise.
C23_DecodeDispatch ==
    \A i \in 1..Len(consumed) :
        consumed[i].format =
            IF StartsWith(contentType, "text/plain") THEN "text"
            ELSE IF StartsWith(contentType, "application/json") THEN "json"
            ELSE IF StartsWith(contentType, "multipart/form-data") THEN "formData"
            ELSE IF StartsWith(contentType, "application/x-www-form-urlencoded")
                 THEN "URLSearchParams"
            ELSE "blob"

\* C24: no body is read while the attempt loop runs, and none ever with
\* parse false, where a returned or status-rejected call carries the raw
\* stream; with parse true, once the loop has ended with a final response
\* exactly one body read has been started, that of the final response, on
\* the success path and on the status-error path alike.
C24_ConsumedOnce ==
    /\ pc \in {"start", "wait", "fetch"} => consumed = << >>
    /\ TransportThrew => consumed = << >>
    /\ (Resolved /\ ~parse) =>
          /\ consumed = << >>
          /\ (pc = "resolved" \/ StatusRejected) => result.body = "stream"
    /\ (LoopEnded /\ parse) =>
          /\ Len(consumed) = 1
          /\ consumed[1].id = response.id
          /\ response.id = Len(statuses)
          /\ (pc = "resolved" \/ StatusRejected) => result.body = "decoded"

\* C24 witness: with parse true a call has rejected with the status error
\* of its third response after one body read, that of the third response
C24_Witness ==
    /\ parse
    /\ StatusRejected
    /\ Len(statuses) = 3
    /\ Len(consumed) = 1
    /\ consumed[1].id = 3

\* the base URL in force is b: the call-level url, else the client-level one
BaseIs(b) ==
    \/ callOptions.url = {b}
    \/ callOptions.url = {} /\ clientOptions.url = {b}

\* the path of the call is the reference with these segments
PathIs(abs, segs) == path = [abs |-> abs, segs |-> segs]

C26_SegmentsKept ==
    (Resolved /\ BaseIs(<< "hello" >>)) =>
        /\ PathIs(FALSE, << "world" >>) => url = << "hello", "world" >>
        /\ PathIs(TRUE, << "world" >>) => url = << "hello", "world" >>
        /\ PathIs(FALSE, << >>) => url = << "hello" >>
        /\ PathIs(TRUE, << "" >>) => url = << "hello" >>

\* C27: a step in which the composed signal fires during a wait ends the
\* wait in that step, before its delay has elapsed, and takes the loop to
\* the transport call of the same attempt: nothing is thrown, the call stays
\* pending. Every wait ends once, by its timer or by the signal, and a wait
\* ended by the signal is followed by the transport call of its attempt.
C27_WaitAbortable ==
    /\ [][(pc = "wait" /\ ~SignalAborted /\ SignalAborted') =>
             /\ pc' = "fetch"
             /\ attempt' = attempt
             /\ waitEnds' = Append(waitEnds, "aborted")
             /\ fetchCount' = fetchCount + 1
             /\ sent' = Append(sent, request)
             /\ result' = NoResult
             /\ thrown' = "none"]_vars
    /\ [](Len(waitEnds) = fetchCount)
    /\ [](pc = "wait" => Len(waitEnds) = waitCount - 1)
    /\ [](pc \in {"fetch", "decode", "resolved"} => Len(waitEnds) = waitCount)

\* C27 witness: the wait before the second retry was ended by call.signal and
\* the transport call of that attempt is in flight
C27_Witness ==
    /\ pc = "fetch"
    /\ attempt = 2
    /\ waitEnds = << "elapsed", "elapsed", "aborted" >>
    /\ callSignal = "aborted"
    /\ fetchCount = 3
    /\ result = NoResult

\* C28: the delays of the waits started so far are 0 for attempt 0 and, for
\* attempt k >= 1, element k - 1 of retryDelay when the sequence has one,
\* else its last element; a wait is started per attempt and precedes its
\* transport call, so that the waits outnumber the transport calls by the
\* one wait in progress and by nothing once the loop has ended.
C28_WaitDelays ==
    /\ Len(delays) = waitCount
    /\ \A i \in 1..Len(delays) :
          delays[i] = IF i = 1 THEN 0
                      ELSE IF i - 1 <= Len(retryDelay) THEN retryDelay[i - 1]
                      ELSE retryDelay[Len(retryDelay)]
    /\ pc = "wait" => waitCount = fetchCount + 1 /\ waitCount = attempt + 1
    /\ pc # "wait" => waitCount = fetchCount
    /\ fetchCount \in {attempt, attempt + 1}

\* C28 witness: with retryDelay [5] and two retries the waits lasted 0, 5 and
\* again 5 ms, and no wait followed the third transport call
C28_Witness ==
    /\ Settled
    /\ retryDelay = << 5 >>
    /\ delays = << 0, 5, 5 >>
    /\ fetchCount = 3

\* C29: every timeout timer is armed with a delay of at most 2^31 - 1 ms:
\* the configured timeout (call level, else client level) when it is not
\* larger, 2^31 - 1 when it is larger or when none is configured; and a
\* timer has been armed in every call that has issued a transport call.
C29_TimerDelay ==
    /\ Len(armed) = armCount
    /\ fetchCount >= 1 => Len(armed) >= 1
    /\ \A i \in 1..Len(armed) :
          /\ Leq(armed[i], Ms(2147483647))
          /\ \A v \in callOptions.timeout \cup
                        (IF callOptions.timeout = {} THEN clientOptions.timeout ELSE {}) :
                /\ Leq(armed[i], v)
                /\ Leq(v, Ms(2147483647)) => armed[i] = v
                /\ ~Leq(v, Ms(2147483647)) => armed[i] = Ms(2147483647)
          /\ (callOptions.timeout = {} /\ clientOptions.timeout = {})
                => armed[i] = Ms(2147483647)

\* C29 witness: a call configured with a timeout of 2^31 ms at call level
\* and 50 ms at client level has armed its timer with 2^31 - 1 ms
C29_Witness ==
    /\ callOptions.timeout = {Above(0)}
    /\ clientOptions.timeout = {Ms(50)}
    /\ armed = << Ms(2147483647) >>
    /\ fetchCount = 1

\* C30: the Request left by the request interceptors does not change once
\* the loop runs, and every transport call so far was passed that one
\* Request: also the transport call of a retry of a request with a body,
\* which is passed the Request whose body the attempt before it handed to
\* the transport.
C30_SameRequest ==
    /\ [][pc # "start" => request' = request]_vars
    /\ [](\A i \in 1..Len(sent) : sent[i] = request)
    /\ []((fetchCount >= 2 /\ requestBody # "undefined") =>
            sent[fetchCount] = sent[fetchCount - 1])

\* C30 witness: the transport call of the first retry of a POST request with
\* a JSON body was passed the Request that the call-level interceptor
\* returned and that the first transport call was passed
C30_Witness ==
    /\ pc = "fetch"
    /\ attempt = 1
    /\ requestBody = "JSON.stringify(object)"
    /\ request = CallRequest
    /\ sent = << CallRequest, CallRequest >>

\* C31: with timeoutReset true no timeout timer is armed during a wait; the
\* timeout source fires only in a step taken while a transport call is in
\* flight; and, whatever timeoutReset is, at most one timeout timer of the
\* call is armed in every state.
C31_NoTimerWhileWaiting ==
    /\ []((timeoutReset /\ pc = "wait") => timers = {})
    /\ [](Cardinality(timers) <= 1)
    /\ [][(timeoutReset /\ ~abortController /\ abortController') => pc = "fetch"]_vars

\* the response the client interceptor leaves for the final response
ResponseLeftByClient ==
    IF clientOptions.interceptResponse = "replace" THEN ClientResponse ELSE response

\* the response the last response interceptor leaves
ResponseLeftByInterceptors ==
    IF callOptions.interceptResponse = "replace" THEN CallResponse
    ELSE ResponseLeftByClient

\* C32: while the body of the final response is read no response
\* interceptor has run; in a call that resolved, the returned body was taken
\* from the final response the transport delivered, whatever response the
\* interceptors returned, the one body read with parse true was made on that
\* response, and the returned response and status are those of the response
\* the last interceptor left.
C32_BodyBeforeInterceptors ==
    /\ pc = "decode" =>
          /\ ResponseHooksRun = << >>
          /\ Len(consumed) = 1
          /\ consumed[1].id = response.id
    /\ pc = "resolved" =>
          /\ bodySource = response.id
          /\ response.id = Len(statuses)
          /\ bodySource \notin {ClientResponse.id, CallResponse.id}
          /\ result.body = IF parse THEN "decoded" ELSE "stream"
          /\ parse => consumed = << [id |-> response.id, format |-> "blob"] >>
          /\ result.response = ResponseLeftByInterceptors.id
          /\ result.status = ResponseLeftByInterceptors.status

\* C32 witness: a call whose two response interceptors each returned another
\* response has resolved with the response and status of the call-level
\* one and the decoded body of the second response of the transport
C32_Witness ==
    /\ pc = "resolved"
    /\ parse
    /\ clientOptions.interceptResponse = "replace"
    /\ callOptions.interceptResponse = "replace"
    /\ Len(statuses) = 2
    /\ bodySource = 2
    /\ result.response = CallResponse.id
    /\ result.status = CallResponse.status
    /\ result.status # response.status

====
